---- MODULE Spec2Model ----
(***************************************************************************)
(* Proof-of-work acceptance and difficulty retargeting of jincoin-core     *)
(* (pow.cpp, chainparams.cpp).                                             *)
(*                                                                         *)
(* A 256-bit unsigned value (arith_uint256) is a sequence of Width bytes,  *)
(* least significant byte first, so that every operation keeps the width   *)
(* of the C++ type and wraps modulo 2^256 exactly where the C++ does.      *)
(* Values that the argument of a claim needs without wrapping are computed *)
(* on eight more bytes. 32-bit quantities (nBits, nTime) are integers; the *)
(* inputs drawn for them stay below 2^31.                                  *)
(***************************************************************************)
EXTENDS Integers, Sequences, FiniteSets, TLC

(***************************************************************************)
(* arith_uint256: fixed-width unsigned arithmetic                          *)
(***************************************************************************)
Width == 32

Byte == 256

Pow256(n) == 256 ^ n

\* base_uint(uint64_t b), for values below 2^31, on n bytes
FromInt(v, n) == [k \in 1..n |-> IF k <= 4 THEN (v \div Pow256(k - 1)) % Byte ELSE 0]

Arith256(v) == FromInt(v, Width)

\* the same value on more bytes (no C++ counterpart: exact arithmetic)
Widen(a, n) == [k \in 1..n |-> IF k <= Len(a) THEN a[k] ELSE 0]

\* the low Width bytes of a value: what a 256-bit variable keeps of it
Truncate(a) == [k \in 1..Width |-> a[k]]

\* a 256-bit value on Width + 8 bytes, where a product by 2^32 cannot wrap
Wide(a) == Widen(a, Width + 8)

RECURSIVE CompareFrom(_, _, _)
CompareFrom(a, b, k) ==
    IF k = 0 THEN 0
    ELSE IF a[k] > b[k] THEN 1
    ELSE IF a[k] < b[k] THEN -1
    ELSE CompareFrom(a, b, k - 1)

\* base_uint::CompareTo
CompareTo(a, b) == CompareFrom(a, b, Len(a))

Gt(a, b) == CompareTo(a, b) = 1

Ge(a, b) == CompareTo(a, b) >= 0

Le(a, b) == CompareTo(a, b) <= 0

IsZero(a) == \A k \in 1..Len(a) : a[k] = 0

RECURSIVE AddFrom(_, _, _, _)
AddFrom(a, b, k, carry) ==
    IF k > Len(a) THEN << >>
    ELSE LET s == a[k] + b[k] + carry
         IN  << s % Byte >> \o AddFrom(a, b, k + 1, s \div Byte)

\* base_uint::operator+= : the carry out of the top byte is dropped
Add(a, b) == AddFrom(a, b, 1, 0)

RECURSIVE SubFrom(_, _, _, _)
SubFrom(a, b, k, borrow) ==
    IF k > Len(a) THEN << >>
    ELSE LET s == a[k] - b[k] - borrow
         IN  << s % Byte >> \o SubFrom(a, b, k + 1, IF s < 0 THEN 1 ELSE 0)

\* base_uint::operator-= : a + (-b) modulo 2^(8*Len(a))
Sub(a, b) == SubFrom(a, b, 1, 0)

RECURSIVE MulFrom(_, _, _, _)
MulFrom(a, m, k, carry) ==
    IF k > Len(a) THEN << >>
    ELSE LET s == a[k] * m + carry
         IN  << s % Byte >> \o MulFrom(a, m, k + 1, s \div Byte)

\* multiplication by a factor below 2^16, carry out of the top byte dropped
MulSmall(a, m) == MulFrom(a, m, 1, 0)

\* base_uint::operator<<= by whole bytes, bytes shifted out are lost
ShiftLeftBytes(a, s) == [k \in 1..Len(a) |-> IF k - s >= 1 THEN a[k - s] ELSE 0]

\* base_uint::operator*=(uint32_t b32): the product modulo 2^(8*Len(a))
MulU32(a, m) ==
    Add(MulSmall(a, m % 65536), ShiftLeftBytes(MulSmall(a, m \div 65536), 2))

RECURSIVE DivFrom(_, _, _, _)
DivFrom(a, d, k, rem) ==
    IF k = 0 THEN << >>
    ELSE LET cur == rem * Byte + a[k]
         IN  IF cur < d
             THEN DivFrom(a, d, k - 1, cur) \o << 0 >>
             ELSE DivFrom(a, d, k - 1, cur % d) \o << cur \div d >>

\* base_uint::operator/= by a divisor 0 < d < 2^23: the floor of the quotient
DivSmall(a, d) == DivFrom(a, d, Len(a), 0)

RECURSIVE TopByte(_, _)
TopByte(a, k) == IF k = 0 THEN 0 ELSE IF a[k] # 0 THEN k ELSE TopByte(a, k - 1)

\* (bits() + 7) / 8 : the number of significant bytes
SizeInBytes(a) == TopByte(a, Len(a))

ByteAt(a, k) == IF k >= 1 /\ k <= Len(a) THEN a[k] ELSE 0

(***************************************************************************)
(* arith_uint256: the compact encoding                                     *)
(***************************************************************************)
CompactSize(nCompact) == nCompact \div 16777216

\* nCompact & 0x007fffff
CompactWord(nCompact) == nCompact % 8388608

\* (nCompact & 0x00800000) != 0
CompactSignBit(nCompact) == (nCompact \div 8388608) % 2 = 1

\* nWord after "nWord >>= 8 * (3 - nSize)" when nSize <= 3
ShiftedWord(nCompact) ==
    LET nSize == CompactSize(nCompact)
    IN  IF nSize <= 3 THEN CompactWord(nCompact) \div Pow256(3 - nSize)
        ELSE CompactWord(nCompact)

\* arith_uint256::SetCompact: the magnitude
SetCompact(nCompact) ==
    LET nSize == CompactSize(nCompact)
        nWord == ShiftedWord(nCompact)
    IN  IF nSize <= 3 THEN Arith256(nWord)
        ELSE ShiftLeftBytes(Arith256(nWord), nSize - 3)

\* arith_uint256::SetCompact: *pfNegative
SetCompactNegative(nCompact) ==
    ShiftedWord(nCompact) # 0 /\ CompactSignBit(nCompact)

\* arith_uint256::SetCompact: *pfOverflow
SetCompactOverflow(nCompact) ==
    LET nSize == CompactSize(nCompact)
        nWord == ShiftedWord(nCompact)
    IN  nWord # 0 /\ (\/ nSize > 34
                      \/ (nWord > 255 /\ nSize > 33)
                      \/ (nWord > 65535 /\ nSize > 32))

\* arith_uint256::GetCompact(fNegative = false)
GetCompact(a) ==
    LET nSize == SizeInBytes(a)
        word  == IF nSize <= 3
                 THEN (a[1] + a[2] * 256 + a[3] * 65536) * Pow256(3 - nSize)
                 ELSE a[nSize - 2] + a[nSize - 1] * 256 + a[nSize] * 65536
    IN  IF word >= 8388608
        THEN (word \div 256) + (nSize + 1) * 16777216
        ELSE word + nSize * 16777216

\* UintToArith256(uint256): the 256-bit value of a hash or of powLimit
UintToArith256(u) == u

(***************************************************************************)
(* chainparams.cpp: the consensus parameters of the three networks         *)
(***************************************************************************)
\* uint256S("00000fffff...ff") = 2^236 - 1
PowLimitMain == [k \in 1..Width |-> IF k <= 29 THEN 255 ELSE IF k = 30 THEN 15 ELSE 0]

\* uint256S("7fffff...ff") = 2^255 - 1
PowLimitRegTest == [k \in 1..Width |-> IF k <= 31 THEN 255 ELSE 127]

CMainParams ==
    [powLimit |-> PowLimitMain, nPowTargetTimespan |-> 4 * 60 * 60,
     nPowTargetSpacing |-> 79, fPowAllowMinDifficultyBlocks |-> FALSE,
     fPowNoRetargeting |-> FALSE]

CTestNetParams ==
    [powLimit |-> PowLimitMain, nPowTargetTimespan |-> 4 * 60 * 60,
     nPowTargetSpacing |-> 79, fPowAllowMinDifficultyBlocks |-> TRUE,
     fPowNoRetargeting |-> FALSE]

CRegTestParams ==
    [powLimit |-> PowLimitRegTest, nPowTargetTimespan |-> 30 * 60,
     nPowTargetSpacing |-> 30, fPowAllowMinDifficultyBlocks |-> TRUE,
     fPowNoRetargeting |-> TRUE]

AllParams == {CMainParams, CTestNetParams, CRegTestParams}

\* the test network has the proof-of-work parameters of the main network
ParamsSet == {CMainParams, CRegTestParams}

(***************************************************************************)
(* pow.cpp: CheckProofOfWork                                               *)
(***************************************************************************)
\* CheckProofOfWork with ">=" for ">" in the comparison of the hash
CheckProofOfWorkStrict(hash, nBits, p) ==
    LET bnTarget == SetCompact(nBits)
    IN  IF SetCompactNegative(nBits) \/ IsZero(bnTarget) \/ SetCompactOverflow(nBits)
           \/ Gt(bnTarget, UintToArith256(p.powLimit))
        THEN FALSE
        ELSE IF Ge(UintToArith256(hash), bnTarget)
        THEN FALSE
        ELSE TRUE

CheckProofOfWork(hash, nBits, p) ==
    LET fNegative == SetCompactNegative(nBits)
        fOverflow == SetCompactOverflow(nBits)
        bnTarget  == SetCompact(nBits)
    IN  IF fNegative \/ IsZero(bnTarget) \/ fOverflow
           \/ Gt(bnTarget, UintToArith256(p.powLimit))
        THEN FALSE
        ELSE IF Gt(UintToArith256(hash), bnTarget)
        THEN FALSE
        ELSE TRUE

(***************************************************************************)
(* pow.cpp: CalculateNextWorkRequired_V1 (the legacy linear retargeter)    *)
(***************************************************************************)
\* LimitedTimespan without the upper limit
LimitedTimespanNoUpper(pindexLast, nFirstBlockTime, p) ==
    LET nActualTimespan == pindexLast.nTime - nFirstBlockTime
    IN  IF nActualTimespan < p.nPowTargetTimespan \div 4
        THEN p.nPowTargetTimespan \div 4 ELSE nActualTimespan

\* nActualTimespan after the two "limit adjustment step" assignments
LimitedTimespan(pindexLast, nFirstBlockTime, p) ==
    LET nActualTimespan == pindexLast.nTime - nFirstBlockTime
        low == IF nActualTimespan < p.nPowTargetTimespan \div 4
               THEN p.nPowTargetTimespan \div 4 ELSE nActualTimespan
    IN  IF low > p.nPowTargetTimespan * 4 THEN p.nPowTargetTimespan * 4 ELSE low

\* bnNew after "bnNew *= nActualTimespan; bnNew /= params.nPowTargetTimespan"
RetargetV1(pindexLast, nFirstBlockTime, p) ==
    DivSmall(MulU32(SetCompact(pindexLast.nBits),
                    LimitedTimespan(pindexLast, nFirstBlockTime, p)),
             p.nPowTargetTimespan)

\* ClampToPowLimit without the comparison
NoClampToPowLimit(bnNew, p) == bnNew

\* "if (bnNew > bnPowLimit) bnNew = bnPowLimit"
ClampToPowLimit(bnNew, p) ==
    IF Gt(bnNew, UintToArith256(p.powLimit)) THEN UintToArith256(p.powLimit) ELSE bnNew

\* CalculateNextWorkRequired_V1 that decodes and re-encodes nBits when
\* fPowNoRetargeting is set
CalculateNextWorkRequired_V1Reencode(pindexLast, nFirstBlockTime, p) ==
    IF p.fPowNoRetargeting
    THEN GetCompact(SetCompact(pindexLast.nBits))
    ELSE GetCompact(ClampToPowLimit(RetargetV1(pindexLast, nFirstBlockTime, p), p))

CalculateNextWorkRequired_V1(pindexLast, nFirstBlockTime, p) ==
    IF p.fPowNoRetargeting
    THEN pindexLast.nBits
    ELSE GetCompact(ClampToPowLimit(RetargetV1(pindexLast, nFirstBlockTime, p), p))

CalculateNextWorkRequired(pindexLast, nFirstBlockTime, p) ==
    CalculateNextWorkRequired_V1(pindexLast, nFirstBlockTime, p)

(***************************************************************************)
(* pow.cpp: KimotoGravityWell, the pieces of the function                  *)
(***************************************************************************)
\* A chain is the sequence of CBlockIndex nodes reachable from pindexLast:
\* chain[1] is pindexLast, chain[k + 1] is chain[k]->pprev, and the pprev of
\* the last node is NULL.  A NULL pointer is the index 0.
NullIndex == 0

Prev(c, k) == IF k < Len(c) THEN k + 1 ELSE NullIndex

\* Bootstrap without the comparison of the height with PastBlocksMin
BootstrapGenesisOnly(c, PastBlocksMin) == c = << >> \/ c[1].nHeight = 0

\* the early return before the loop
Bootstrap(c, PastBlocksMin) ==
    c = << >> \/ c[1].nHeight = 0 \/ c[1].nHeight < PastBlocksMin

\* the condition of the for statement
LoopCondition(c, reading) == reading # NullIndex /\ c[reading].nHeight > 0

\* WindowExceeded one iteration late
WindowExceededLate(iter, PastBlocksMax) == PastBlocksMax > 0 /\ iter > PastBlocksMax + 1

\* "if (PastBlocksMax > 0 && i > PastBlocksMax) break"
WindowExceeded(iter, PastBlocksMax) == PastBlocksMax > 0 /\ iter > PastBlocksMax

\* NextAverage without the comparison: always (d - prev) / iter + prev
NextAverageNoBranch(iter, nBits, prev) ==
    IF iter = 1 THEN SetCompact(nBits)
    ELSE Add(DivSmall(Sub(SetCompact(nBits), prev), iter), prev)

\* the update of PastDifficultyAverage in iteration iter
NextAverage(iter, nBits, prev) ==
    LET d == SetCompact(nBits)
    IN  IF iter = 1 THEN d
        ELSE IF Ge(d, prev) THEN Add(DivSmall(Sub(d, prev), iter), prev)
        ELSE Sub(prev, DivSmall(Sub(prev, d), iter))

\* PastRateActualSeconds, clamped at zero
ActualSeconds(last, reading) ==
    LET diff == last.nTime - reading.nTime IN IF diff < 0 THEN 0 ELSE diff

\* PastRateTargetSeconds
TargetSeconds(spacing, mass) == spacing * mass

\* The scale of the fixed-point values that stand for the doubles.
RatioScale == 1000000

\* 1 + 0.7084 * pow(mass / 28.2, -1.228), times RatioScale, rounded to nearest
DeviationTable ==
    << 43774452, 19260793, 12098890, 8795694, 6927196, 5738215,
       4921065, 4328051, 3879882, 3530372, 3250890, 3022786,
       2833420, 2673937, 2537958, 2420774, 2318843, 2229447,
       2150469, 2080238, 2017417, 1960925, 1909877, 1863545,
       1821323, 1782703, 1747257, 1714619, 1684478, 1656568,
       1630656, 1606541, 1584049, 1563026, 1543337, 1524862,
       1507496, 1491146, 1475726, 1461163, 1447390, 1434345,
       1421974, 1410227, 1399061, 1388435, 1378310, 1368655,
       1359438, 1350630, 1342207, 1334143, 1326418, 1319010,
       1311903, 1305077, 1298518, 1292210, 1286140, 1280295,
       1274663, 1269232, 1263994, 1258938, 1254054, 1249336,
       1244774, 1240361, 1236090, 1231955, 1227950, 1224068,
       1220305, 1216655, 1213113, 1209674, 1206335, 1203092,
       1199939, 1196875, 1193894, 1190995, 1188173, 1185426,
       1182750, 1180144, 1177605, 1175130, 1172716, 1170363,
       1168067, 1165826, 1163639, 1161504, 1159419, 1157382,
       1155392, 1153447, 1151546, 1149687, 1147869, 1146091,
       1144351, 1142649, 1140982, 1139351, 1137753, 1136188,
       1134656, 1133154, 1131682, 1130240, 1128826, 1127440,
       1126080, 1124747, 1123439, 1122156, 1120896, 1119660,
       1118447, 1117256, 1116086, 1114938, 1113810, 1112701,
       1111613, 1110543, 1109491, 1108458, 1107442, 1106444,
       1105462, 1104496, 1103546, 1102612, 1101693, 1100789,
       1099899, 1099024, 1098162, 1097314, 1096479, 1095657,
       1094847, 1094050, 1093265, 1092492, 1091730, 1090980,
       1090240, 1089512, 1088794, 1088086, 1087389, 1086702,
       1086024, 1085356, 1084697, 1084048, 1083407, 1082775,
       1082152, 1081537, 1080931, 1080333, 1079742, 1079160,
       1078585, 1078018 >>

EventHorizonDeviation(mass) == DeviationTable[mass]

\* target * x compared with actual * y; both products are below 2^64
RatioCompare(target, x, actual, y) ==
    CompareTo(MulU32(FromInt(target, 8), x), MulU32(FromInt(actual, 8), y))

\* PastRateAdjustmentRatio >= EventHorizonDeviationFast; the ratio is 1 when
\* one of the two durations is zero, and the deviation is above 1
RatioFast(actual, target, mass) ==
    actual # 0 /\ target # 0
    /\ RatioCompare(target, RatioScale, actual, EventHorizonDeviation(mass)) >= 0

\* PastRateAdjustmentRatio <= EventHorizonDeviationSlow
RatioSlow(actual, target, mass) ==
    actual # 0 /\ target # 0
    /\ RatioCompare(target, EventHorizonDeviation(mass), actual, RatioScale) <= 0

\* EarlyExit that tests the fast bound only
EarlyExitFastOnly(mass, PastBlocksMin, actual, target) ==
    mass >= PastBlocksMin /\ RatioFast(actual, target, mass)

\* the break of "if (PastBlocksMass >= PastBlocksMin) { if (...) break; }"
EarlyExit(mass, PastBlocksMin, actual, target) ==
    mass >= PastBlocksMin /\ (RatioSlow(actual, target, mass) \/ RatioFast(actual, target, mass))

\* bnNew after the scaling that follows the loop; both durations are below
\* 2^32 here, so the conversions of the int64_t operands lose nothing
ScaledTarget(average, actual, target) ==
    IF actual # 0 /\ target # 0
    THEN DivSmall(MulU32(average, actual), target)
    ELSE average

(***************************************************************************)
(* pow.cpp: GetNextWorkRequired, the constants of the dispatcher           *)
(***************************************************************************)
\* bnGenesisDifficulty, uint256S("000000ffff...ff") = 2^232 - 1, in its place
bnGenesisDifficulty == [k \in 1..Width |-> IF k <= 29 THEN 255 ELSE 0]

\* uint256S("0000001fff...ff") = 2^229 - 1
bnStartDifficulty == [k \in 1..Width |-> IF k <= 28 THEN 255 ELSE IF k = 29 THEN 31 ELSE 0]

StartHeight == 160

BlocksTargetSpacing == 79

TimeDaySeconds == 60 * 60 * 24

\* PastSecondsMin without the factor 79.0/60.0
PastSecondsMinNoRatio == TimeDaySeconds \div 10

\* TimeDaySeconds * (79.0/60.0) * 0.1 = 11376.0 and
\* TimeDaySeconds * (79.0/60.0) * 2.8 = 318528.0 as IEEE doubles
PastSecondsMin == 11376

PastSecondsMax == 318528

(***************************************************************************)
(* The inputs                                                              *)
(***************************************************************************)
MaxChainLen == 3

MaxWindow == 3

\* nTime of the genesis block, taken as the time of every tip
TipTime == 1471801377

\* nBits of a tip: 0x1e080000 (2^235), 0x1d00ffff, 0x1e8fffff (sign bit set)
TipBitsSet == {503840768, 486604799, 512753663}

\* 2^21 seconds, the time in which 2^235 * seconds reaches 2^256
LongGap == 2097152

\* <<nTime, nBits>> of the nodes behind the tip: 0x1e080000 long before the
\* tip, 0x1e080000 and 0x1d00ffff two block spacings before it, 0x1e080000 one
\* second before it, 0x1d00ffff after it
BehindSet ==
    {<< TipTime - LongGap, 503840768 >>, << TipTime - 158, 503840768 >>,
     << TipTime - 158, 486604799 >>, << TipTime - 1, 503840768 >>,
     << TipTime + 100, 486604799 >>}

Node(h, t, b) == [nHeight |-> h, nTime |-> t, nBits |-> b]

\* the chains of n nodes whose tip has height h
ChainsOf(n, h) ==
    {[k \in 1..n |-> IF k = 1 THEN Node(h, TipTime, tb)
                     ELSE Node(h - (k - 1), nd[k][1], nd[k][2])] :
        tb \in TipBitsSet, nd \in [2..n -> BehindSet]}

\* a chain either reaches the genesis block or ends at a node whose
\* predecessor is absent; the tip of the second kind has height StartHeight
Chains ==
    {<< >>} \cup UNION {ChainsOf(n, n - 1) \cup ChainsOf(n, StartHeight) : n \in 1..MaxChainLen}

SpacingSet == {0, BlocksTargetSpacing}

NoArgs ==
    [hash |-> Arith256(0), nBits |-> 0, nFirstBlockTime |-> 0,
     spacing |-> 0, PastBlocksMin |-> 0, PastBlocksMax |-> 0]

(***************************************************************************)
(* The state                                                               *)
(***************************************************************************)
VARIABLES
    params,                     \* const Consensus::Params& params
    chain,                      \* pindexLast and the nodes behind it
    pc,                         \* "idle", "walk", "scale", "done", "aborted"
    fn,                         \* the function that was called
    args,                       \* its arguments
    i,                          \* the loop counter of KimotoGravityWell
    BlockReading,               \* index of the node being read, NullIndex if NULL
    PastBlocksMass,
    PastRateActualSeconds,
    PastRateTargetSeconds,
    PastDifficultyAverage,
    PastDifficultyAveragePrev,
    stop,                       \* why the loop ended
    samples,                    \* one record per completed loop body
    valid,                      \* the value returned by CheckProofOfWork
    result                      \* the nBits returned by a retargeter

vars ==
    << params, chain, pc, fn, args, i, BlockReading, PastBlocksMass,
       PastRateActualSeconds, PastRateTargetSeconds, PastDifficultyAverage,
       PastDifficultyAveragePrev, stop, samples, valid, result >>

loopVars ==
    << i, BlockReading, PastBlocksMass, PastRateActualSeconds,
       PastRateTargetSeconds, PastDifficultyAverage,
       PastDifficultyAveragePrev, stop, samples >>

\* the locals of KimotoGravityWell as its declarations initialise them
InitLocals ==
    /\ i = 1
    /\ BlockReading = NullIndex
    /\ PastBlocksMass = 0
    /\ PastRateActualSeconds = 0
    /\ PastRateTargetSeconds = 0
    /\ PastDifficultyAverage = Arith256(0)
    /\ PastDifficultyAveragePrev = Arith256(0)
    /\ stop = "none"
    /\ samples = << >>

InitCommon ==
    /\ pc = "idle"
    /\ fn = "none"
    /\ args = NoArgs
    /\ InitLocals
    /\ valid = FALSE
    /\ result = 0

Init ==
    /\ chain \in Chains
    /\ InitCommon
    /\ params \in ParamsSet

(***************************************************************************)
(* KimotoGravityWell as a state machine: entry, one loop body, the tail    *)
(***************************************************************************)
\* entry up to the first evaluation of the loop condition
EnterKimotoGravityWell(spacing, PastBlocksMin, PastBlocksMax) ==
    /\ args' = [NoArgs EXCEPT !.spacing = spacing, !.PastBlocksMin = PastBlocksMin,
                              !.PastBlocksMax = PastBlocksMax]
    /\ IF Bootstrap(chain, PastBlocksMin)
       THEN /\ result' = GetCompact(UintToArith256(params.powLimit))
            /\ pc' = "done"
            /\ UNCHANGED loopVars
       ELSE /\ BlockReading' = 1
            /\ pc' = "walk"
            /\ UNCHANGED << result, i, PastBlocksMass, PastRateActualSeconds,
                            PastRateTargetSeconds, PastDifficultyAverage,
                            PastDifficultyAveragePrev, stop, samples >>
    /\ UNCHANGED << params, chain, valid >>

CallKimotoGravityWell ==
    /\ pc = "idle"
    /\ \E spacing \in SpacingSet, PastBlocksMin \in 0..MaxWindow, PastBlocksMax \in 0..MaxWindow :
          EnterKimotoGravityWell(spacing, PastBlocksMin, PastBlocksMax)
    /\ fn' = "KimotoGravityWell"

\* the loop is left at the for condition or at the PastBlocksMax test
LoopExit ==
    /\ pc = "walk"
    /\ ~LoopCondition(chain, BlockReading) \/ WindowExceeded(i, args.PastBlocksMax)
    /\ stop' = IF ~LoopCondition(chain, BlockReading) THEN "condition" ELSE "window"
    /\ pc' = "scale"
    /\ UNCHANGED << params, chain, fn, args, i, BlockReading, PastBlocksMass,
                    PastRateActualSeconds, PastRateTargetSeconds,
                    PastDifficultyAverage, PastDifficultyAveragePrev,
                    samples, valid, result >>

\* the condition of "assert(BlockReading)" with the predecessor in its place
AssertPredecessor(reading) == Prev(chain, reading) # NullIndex

\* the condition of "assert(BlockReading)"
AssertBlockReading(reading) == reading # NullIndex

\* "{ assert(BlockReading); break; }": a failed assertion aborts the process
Break(reason) ==
    /\ stop' = IF AssertBlockReading(BlockReading) THEN reason ELSE "assert"
    /\ pc' = IF AssertBlockReading(BlockReading) THEN "scale" ELSE "aborted"
    /\ UNCHANGED << i, BlockReading >>

\* one execution of the loop body
LoopBody ==
    /\ pc = "walk"
    /\ LoopCondition(chain, BlockReading)
    /\ ~WindowExceeded(i, args.PastBlocksMax)
    /\ PastBlocksMass' = PastBlocksMass + 1
    /\ PastDifficultyAverage' =
           NextAverage(i, chain[BlockReading].nBits, PastDifficultyAveragePrev)
    /\ PastDifficultyAveragePrev' = PastDifficultyAverage'
    /\ PastRateActualSeconds' = ActualSeconds(chain[1], chain[BlockReading])
    /\ PastRateTargetSeconds' = TargetSeconds(args.spacing, PastBlocksMass')
    /\ samples' = Append(samples,
           [iter |-> i, node |-> BlockReading, mass |-> PastBlocksMass',
            prev |-> PastDifficultyAveragePrev, average |-> PastDifficultyAverage',
            actual |-> PastRateActualSeconds', target |-> PastRateTargetSeconds',
            nBits |-> chain[BlockReading].nBits])
    /\ IF EarlyExit(PastBlocksMass', args.PastBlocksMin,
                    PastRateActualSeconds', PastRateTargetSeconds')
       THEN Break("deviation")
       ELSE IF Prev(chain, BlockReading) = NullIndex
       THEN Break("noprev")
       ELSE /\ BlockReading' = Prev(chain, BlockReading)
            /\ i' = i + 1
            /\ UNCHANGED << stop, pc >>
    /\ UNCHANGED << params, chain, fn, args, valid, result >>

\* the statements after the loop
Retarget ==
    /\ pc = "scale"
    /\ result' = GetCompact(ClampToPowLimit(
                     ScaledTarget(PastDifficultyAverage, PastRateActualSeconds,
                                  PastRateTargetSeconds), params))
    /\ pc' = "done"
    /\ UNCHANGED << params, chain, fn, args, valid >>
    /\ UNCHANGED loopVars

(***************************************************************************)
(* GetNextWorkRequired                                                     *)
(***************************************************************************)
CallGetNextWorkRequired ==
    /\ pc = "idle"
    /\ chain # << >>
    /\ fn' = "GetNextWorkRequired"
    /\ IF chain[1].nHeight = StartHeight
       THEN /\ result' = GetCompact(bnStartDifficulty)
            /\ pc' = "done"
            /\ UNCHANGED << params, chain, args, valid >>
            /\ UNCHANGED loopVars
       ELSE EnterKimotoGravityWell(BlocksTargetSpacing,
                                   PastSecondsMin \div BlocksTargetSpacing,
                                   PastSecondsMax \div BlocksTargetSpacing)

Next ==
    \/ CallKimotoGravityWell
    \/ LoopExit
    \/ LoopBody
    \/ Retarget
    \/ CallGetNextWorkRequired

Spec == Init /\ [][Next]_vars

(***************************************************************************)
(* CheckProofOfWork on its own                                             *)
(***************************************************************************)
\* 0x1e0fffff (powLimit of the main network), 0x1e0ffff0 (genesis), 0x1d00ffff,
\* 0x1d1fffff, 0x03000001 (one), 0 and 0x01003456 (zero), 0x1e8fffff (negative),
\* 0x23000001 and 0x21010000 (overflow), 0x1e100000 (2^236), 0x207fffff
PowBitsSet ==
    {504365055, 504365040, 486604799, 488636415, 50331649, 0, 16790614,
     512753663, 587202561, 553713664, 504365056, 545259519}

AllOnes == [k \in 1..Width |-> 255]

\* the hashes at the target, next to it, and at both ends of the range
HashesAround(nBits) ==
    LET t == SetCompact(nBits)
    IN  {t, Add(t, Arith256(1)), Sub(t, Arith256(1)), Arith256(0), AllOnes}

InitPow ==
    /\ chain = << >>
    /\ InitCommon
    /\ params \in AllParams

CallCheckProofOfWork ==
    /\ pc = "idle"
    /\ \E nBits \in PowBitsSet :
          \E hash \in HashesAround(nBits) :
             /\ args' = [NoArgs EXCEPT !.hash = hash, !.nBits = nBits]
             /\ valid' = CheckProofOfWork(hash, nBits, params)
    /\ fn' = "CheckProofOfWork"
    /\ pc' = "done"
    /\ UNCHANGED << params, chain, result >>
    /\ UNCHANGED loopVars

NextPow == CallCheckProofOfWork

SpecPow == InitPow /\ [][NextPow]_vars

(***************************************************************************)
(* CalculateNextWorkRequired on its own                                    *)
(***************************************************************************)
\* nBits of the tip: TipBitsSet, 0x1e0fffff, 0x207fffff, and 0x1e000fff,
\* which GetCompact never produces
LinearBitsSet == TipBitsSet \cup {504365055, 545259519, 503320575}

\* the start of the window: a quarter, once, four times the main and the
\* regtest timespan before the tip, one second off the limits, the epoch,
\* and after the tip
FirstTimeSet ==
    {TipTime - 14400, TipTime - 3600, TipTime - 3599, TipTime - 57600,
     TipTime - 57601, TipTime - 1800, TipTime - 450, TipTime - 7200,
     TipTime - 7201, 0, TipTime + 100}

InitLinear ==
    /\ chain \in {<< Node(h, TipTime, b) >> : h \in {0, StartHeight}, b \in LinearBitsSet}
    /\ InitCommon
    /\ params \in AllParams

CallCalculateNextWorkRequired ==
    /\ pc = "idle"
    /\ chain # << >>
    /\ \E nFirstBlockTime \in FirstTimeSet :
          /\ args' = [NoArgs EXCEPT !.nFirstBlockTime = nFirstBlockTime]
          /\ result' = CalculateNextWorkRequired(chain[1], nFirstBlockTime, params)
    /\ fn' = "CalculateNextWorkRequired"
    /\ pc' = "done"
    /\ UNCHANGED << params, chain, valid >>
    /\ UNCHANGED loopVars

NextLinear == CallCalculateNextWorkRequired

SpecLinear == InitLinear /\ [][NextLinear]_vars

(***************************************************************************)
(* GetNextWorkRequired on chains long enough for its window                 *)
(***************************************************************************)
\* the heights of the tips: below, at and above PastBlocksMin, and around
\* StartHeight
DispatchHeights == {5, 143, 144, 159, 160, 161}

\* the seconds between two blocks: fast, on target, slow
GapSet == {40, BlocksTargetSpacing, 200}

DispatchBitsSet == {503840768, 486604799}

\* the chain from a tip of height h down to the genesis block, its blocks
\* gap seconds apart
UniformChain(h, gap, b) ==
    [k \in 1..(h + 1) |-> Node(h + 1 - k, TipTime - (k - 1) * gap, b)]

InitDispatch ==
    /\ \E h \in DispatchHeights, gap \in GapSet, b \in DispatchBitsSet :
          chain = UniformChain(h, gap, b)
    /\ InitCommon
    /\ params \in ParamsSet

NextDispatch ==
    \/ CallGetNextWorkRequired
    \/ LoopExit
    \/ LoopBody
    \/ Retarget

SpecDispatch == InitDispatch /\ [][NextDispatch]_vars

(***************************************************************************)
(* The claims                                                              *)
(***************************************************************************)
PowDone == pc = "done" /\ fn = "CheckProofOfWork"

\* the conditions under which the specification accepts a hash
TargetInRange(nBits, p) ==
    /\ ~SetCompactNegative(nBits)
    /\ ~SetCompactOverflow(nBits)
    /\ ~IsZero(SetCompact(nBits))
    /\ Le(SetCompact(nBits), p.powLimit)

\* C1: CheckProofOfWork returns true exactly when the decoded target is not
\* negative, not overflowed, nonzero, at most powLimit, and the hash is at
\* most the target; every other input is answered with false.
C1_AcceptsIffInRangeAndBelow ==
    PowDone =>
        (valid <=> (TargetInRange(args.nBits, params)
                    /\ Le(args.hash, SetCompact(args.nBits))))

\* a hash exactly at an admissible target has been accepted
C1_Witness ==
    /\ PowDone
    /\ valid
    /\ args.hash = SetCompact(args.nBits)

KgwCalled == fn = "KimotoGravityWell"

\* C2 as claimed: the walk never samples more than maxWindow nodes, for
\* every maxWindow, zero included.
C2_MassAtMostMaxWindow ==
    KgwCalled => PastBlocksMass <= args.PastBlocksMax

\* C2: for every maxWindow above zero the walk samples at most maxWindow
\* nodes; with maxWindow = 0 the test of the window is switched off and the
\* walk never ends because of it.
C2_MassAtMostPositiveMaxWindow ==
    KgwCalled =>
        /\ args.PastBlocksMax > 0 =>
              (PastBlocksMass <= args.PastBlocksMax /\ Len(samples) <= args.PastBlocksMax)
        /\ args.PastBlocksMax = 0 => stop # "window"

\* the walk was cut by the window with nodes left to read
C2_Witness ==
    /\ KgwCalled
    /\ pc = "done"
    /\ stop = "window"
    /\ PastBlocksMass = args.PastBlocksMax
    /\ PastBlocksMass < Len(chain)

RetargeterDone ==
    pc = "done" /\ fn \in {"GetNextWorkRequired", "KimotoGravityWell"} /\ chain # << >>

\* C3: with fPowNoRetargeting set, GetNextWorkRequired and the
\* KimotoGravityWell it delegates to return the nBits of the tip.
C3_NoRetargetingKeepsBits ==
    (RetargeterDone /\ params.fPowNoRetargeting) => result = chain[1].nBits

LinearDone == pc = "done" /\ fn = "CalculateNextWorkRequired"

\* C4: with fPowNoRetargeting set, CalculateNextWorkRequired returns exactly
\* the nBits of the tip, whatever the start of the window.
C4_NoRetargetingReturnsTipBits ==
    (LinearDone /\ params.fPowNoRetargeting) => result = chain[1].nBits

\* nBits that no encoder produces came back unchanged, for a window that
\* starts after the tip
C4_Witness ==
    /\ LinearDone
    /\ params.fPowNoRetargeting
    /\ chain[1].nBits = 503320575
    /\ args.nFirstBlockTime > chain[1].nTime
    /\ result = 503320575

\* floor(x * c / timespan) without wrapping, on Width + 8 bytes
ExactRetarget(x, c, timespan) == DivSmall(MulU32(Wide(x), c), timespan)

\* the least c in lo..hi + 1 for which ExactRetarget(x, c, timespan) >= w;
\* ExactRetarget grows with c
RECURSIVE LeastFactor(_, _, _, _, _)
LeastFactor(x, timespan, w, lo, hi) ==
    IF lo > hi THEN lo
    ELSE LET mid == (lo + hi) \div 2
         IN  IF Ge(ExactRetarget(x, mid, timespan), w)
             THEN LeastFactor(x, timespan, w, lo, mid - 1)
             ELSE LeastFactor(x, timespan, w, mid + 1, hi)

\* some c in [timespan/4, timespan*4] has floor(x * c / timespan) = w
SomeFactorGives(x, timespan, w) ==
    LET c == LeastFactor(x, timespan, w, timespan \div 4, timespan * 4)
    IN  c <= timespan * 4 /\ ExactRetarget(x, c, timespan) = w

LinearRetargeted == LinearDone /\ ~params.fPowNoRetargeting

FitsTimesFour(nBits, p) ==
    Wide(MulU32(SetCompact(nBits), p.nPowTargetTimespan * 4))
        = MulU32(Wide(SetCompact(nBits)), p.nPowTargetTimespan * 4)

\* tip.time - firstBlockTimeOfWindow limited to [timespan/4, timespan*4]
FactorOf(span, timespan) ==
    IF span < timespan \div 4 THEN timespan \div 4
    ELSE IF span > timespan * 4 THEN timespan * 4
    ELSE span

C6_BootstrapReturnsPowLimit ==
    (KgwCalled /\ (chain = << >> \/ chain[1].nHeight = 0
                   \/ chain[1].nHeight < args.PastBlocksMin)) =>
        /\ pc = "done"
        /\ samples = << >>
        /\ result = GetCompact(params.powLimit)
        /\ result = IF params = CRegTestParams THEN 545259519 ELSE 504365055

\* a tip above the genesis block and below minWindow got powLimit, which is
\* not what its own nBits say
C6_Witness ==
    /\ KgwCalled
    /\ pc = "done"
    /\ chain # << >>
    /\ chain[1].nHeight > 0
    /\ chain[1].nHeight < args.PastBlocksMin
    /\ result = GetCompact(params.powLimit)
    /\ result # chain[1].nBits

\* the sample is at least minWindow deep and its ratio is outside the envelope
Deviates(s) ==
    /\ s.mass >= args.PastBlocksMin
    /\ (RatioSlow(s.actual, s.target, s.mass) \/ RatioFast(s.actual, s.target, s.mass))

\* C7: the first sample with mass >= minWindow and a ratio at or beyond the
\* slow or the fast bound is the last one: nothing is sampled after it, and
\* the final scaling uses its mass, actualSeconds and targetSeconds.
C7_DeviationEndsWalk ==
    KgwCalled =>
        \A k \in 1..Len(samples) :
            Deviates(samples[k]) =>
                /\ k = Len(samples)
                /\ pc \in {"scale", "done"}
                /\ stop = "deviation"
                /\ PastBlocksMass = samples[k].mass
                /\ PastRateActualSeconds = samples[k].actual
                /\ PastRateTargetSeconds = samples[k].target
                /\ pc = "done" =>
                      result = GetCompact(ClampToPowLimit(
                                   ScaledTarget(samples[k].average, samples[k].actual,
                                                samples[k].target), params))

\* the walk ended on a deviation although the next node could have been
\* sampled and the window was not used up
C7_Witness ==
    /\ KgwCalled
    /\ pc = "done"
    /\ stop = "deviation"
    /\ BlockReading < Len(chain)
    /\ chain[BlockReading + 1].nHeight > 0
    /\ PastBlocksMass > 1
    /\ (args.PastBlocksMax = 0 \/ PastBlocksMass < args.PastBlocksMax)

\* C8: at height 160 GetNextWorkRequired returns 0x1d1fffff, the compact
\* form of 2^229 - 1, and reads no block, whatever the tip, the chain behind
\* it and the parameters are.
C8_StartHeightReturnsStartDifficulty ==
    (fn = "GetNextWorkRequired" /\ chain[1].nHeight = 160) =>
        /\ pc = "done"
        /\ samples = << >>
        /\ result = 488636415

\* the tip at height 160 carried other nBits than the ones returned
C8_Witness ==
    /\ fn = "GetNextWorkRequired"
    /\ pc = "done"
    /\ chain[1].nHeight = 160
    /\ chain[1].nBits # 488636415
    /\ result = 488636415

\* C9: every nBits returned by KimotoGravityWell decode to at most powLimit.
C9_ResultAtMostPowLimit ==
    (KgwCalled /\ pc = "done") => Le(SetCompact(result), params.powLimit)

\* the scaled average was above powLimit and powLimit was returned
C9_Witness ==
    /\ KgwCalled
    /\ pc = "done"
    /\ samples # << >>
    /\ Gt(ScaledTarget(PastDifficultyAverage, PastRateActualSeconds,
                       PastRateTargetSeconds), params.powLimit)
    /\ result = GetCompact(params.powLimit)

\* every sampled block carried a target of at most powLimit
SampledWithinPowLimit ==
    \A k \in 1..Len(samples) : Le(SetCompact(samples[k].nBits), params.powLimit)

\* floor(average * actualSeconds / targetSeconds) clamped to powLimit,
\* computed without wrapping
ExactClamped(average, actual, target, p) ==
    LET exact == DivSmall(MulU32(Wide(average), actual), target)
    IN  IF Gt(exact, Wide(p.powLimit)) THEN p.powLimit ELSE Truncate(exact)

\* C10: when every sampled target is at most powLimit, the product
\* average * actualSeconds of the final scaling is below 2^256 and the
\* returned target is floor(average * actualSeconds / targetSeconds)
\* clamped to powLimit.
C10_ScalingDoesNotWrap ==
    (KgwCalled /\ pc = "done" /\ SampledWithinPowLimit
     /\ PastRateActualSeconds # 0 /\ PastRateTargetSeconds # 0) =>
        /\ Wide(MulU32(PastDifficultyAverage, PastRateActualSeconds))
               = MulU32(Wide(PastDifficultyAverage), PastRateActualSeconds)
        /\ result = GetCompact(ExactClamped(PastDifficultyAverage,
                        PastRateActualSeconds, PastRateTargetSeconds, params))

\* the incremental mean of the specification, computed without wrapping:
\* the smaller of d and prev is subtracted from the larger
ExactMean(iter, d, prev) ==
    IF Ge(d, prev)
    THEN Add(Wide(prev), DivSmall(Sub(Wide(d), Wide(prev)), iter))
    ELSE Sub(Wide(prev), DivSmall(Sub(Wide(prev), Wide(d)), iter))

\* the average of sample k lies between two targets sampled up to k
BetweenSampled(k) ==
    /\ \E j \in 1..k : Le(SetCompact(samples[j].nBits), samples[k].average)
    /\ \E j \in 1..k : Ge(SetCompact(samples[j].nBits), samples[k].average)

\* C12: the incremental mean never underflows: after iteration 1 the average
\* is decode(tip.bits); in every later iteration it is the previous average
\* moved towards d by |d - previous| / i, the smaller subtracted from the
\* larger; and it always lies between the least and the greatest target
\* sampled so far.
\* (Stated of the newest sample: every sample is the newest one in the state
\* that follows its iteration.)
C12_MeanStaysBetweenSamples ==
    (KgwCalled /\ pc \in {"walk", "scale"} /\ samples # << >>) =>
        LET k == Len(samples)
        IN  /\ k = 1 => samples[k].average = SetCompact(chain[1].nBits)
            /\ k > 1 => Wide(samples[k].average)
                            = ExactMean(k, SetCompact(samples[k].nBits), samples[k].prev)
            /\ BetweenSampled(k)
            /\ PastDifficultyAverage = samples[k].average

\* a walk met a target below the running average and then one above it
C12_Witness ==
    /\ KgwCalled
    /\ Len(samples) = 3
    /\ Gt(samples[2].prev, SetCompact(samples[2].nBits))
    /\ Gt(SetCompact(samples[3].nBits), samples[3].prev)
    /\ Gt(samples[3].average, samples[3].prev)

\* C14: when the node being read has no predecessor, at whatever height, its
\* sample is accumulated, the walk stops there, and the result is computed
\* from the average, actualSeconds and targetSeconds of that sample; the
\* function never aborts.
\* (Stated of the newest sample, as every sample is at the state that follows
\* its iteration.)
C14_MissingPredecessorStopsWalk ==
    KgwCalled =>
        /\ pc # "aborted"
        /\ (samples # << >> /\ Prev(chain, samples[Len(samples)].node) = NullIndex) =>
              LET s == samples[Len(samples)]
              IN  /\ pc \in {"scale", "done"}
                  /\ stop \in {"noprev", "deviation"}
                  /\ s.node = Len(chain)
                  /\ PastBlocksMass = s.mass
                  /\ PastDifficultyAverage = s.average
                  /\ PastRateActualSeconds = s.actual
                  /\ PastRateTargetSeconds = s.target
                  /\ pc = "done" =>
                        result = GetCompact(ClampToPowLimit(
                                     ScaledTarget(s.average, s.actual, s.target), params))

\* a walk of three samples ended above the genesis block for want of a
\* predecessor and returned a result
C14_Witness ==
    /\ KgwCalled
    /\ pc = "done"
    /\ stop = "noprev"
    /\ Len(samples) = 3
    /\ chain[BlockReading].nHeight > 0

\* the quotient of the specification: average * actualSeconds /
\* targetSeconds, multiplied first and computed without wrapping, when both
\* are nonzero, and average otherwise
ExactScaled(average, actual, target) ==
    IF actual # 0 /\ target # 0
    THEN DivSmall(MulU32(Wide(average), actual), target)
    ELSE Wide(average)

\* C13: when the walk has ended, actualSeconds is tip.time - cursor.time of
\* the last completed iteration clamped to be >= 0, targetSeconds is
\* blockSpacingSeconds * mass, and the target before the clamp to powLimit is
\* average * actualSeconds / targetSeconds when both are nonzero and average
\* otherwise.
C13_PreClampIsScaledAverage ==
    (KgwCalled /\ pc = "scale" /\ samples # << >>) =>
        LET s == samples[Len(samples)]
            elapsed == chain[1].nTime - chain[s.node].nTime
        IN  /\ PastRateActualSeconds = (IF elapsed < 0 THEN 0 ELSE elapsed)
            /\ PastRateTargetSeconds = args.spacing * s.mass
            /\ PastDifficultyAverage = s.average
            /\ Wide(ScaledTarget(PastDifficultyAverage, PastRateActualSeconds,
                                 PastRateTargetSeconds))
                   = ExactScaled(s.average, PastRateActualSeconds,
                                 PastRateTargetSeconds)

\* every sampled block's bits decode to a non-negative, non-overflowing
\* target in (0, powLimit]
SampledInRange ==
    \A k \in 1..Len(samples) : TargetInRange(samples[k].nBits, params)

\* C15: when every sampled block's bits decode to a non-negative,
\* non-overflowing target in (0, powLimit], so do the bits that
\* KimotoGravityWell returns: the returned target is never zero and some
\* hash satisfies CheckProofOfWork against it.
C15_ResultIsUsableTarget ==
    (KgwCalled /\ pc = "done" /\ SampledInRange) =>
        /\ TargetInRange(result, params)
        /\ CheckProofOfWork(Arith256(0), result, params)

\* KimotoGravityWell as a function of its arguments.  KgwStep is one
\* evaluation of the loop from the locals st; a walk that has ended stays as
\* it is.
KgwStep(c, spacing, PastBlocksMin, PastBlocksMax, st) ==
    IF ~st.running THEN st
    ELSE IF ~LoopCondition(c, st.reading) \/ WindowExceeded(st.iter, PastBlocksMax)
    THEN [st EXCEPT !.running = FALSE]
    ELSE LET next == [st EXCEPT
                 !.mass = st.mass + 1,
                 !.average = NextAverage(st.iter, c[st.reading].nBits, st.average),
                 !.actual = ActualSeconds(c[1], c[st.reading]),
                 !.target = TargetSeconds(spacing, st.mass + 1)]
         IN  IF \/ EarlyExit(next.mass, PastBlocksMin, next.actual, next.target)
                \/ Prev(c, st.reading) = NullIndex
             THEN [next EXCEPT !.running = FALSE]
             ELSE [next EXCEPT !.reading = Prev(c, st.reading), !.iter = st.iter + 1]

\* the locals after n >= 1 evaluations of the loop from st, the first half
\* of them before the second; a walk that has ended in the first half is the
\* result
RECURSIVE KgwSteps(_, _, _, _, _, _)
KgwSteps(c, spacing, PastBlocksMin, PastBlocksMax, n, st) ==
    IF n = 1
    THEN KgwStep(c, spacing, PastBlocksMin, PastBlocksMax, st)
    ELSE LET half == KgwSteps(c, spacing, PastBlocksMin, PastBlocksMax, n \div 2, st)
         IN  IF half.running
             THEN KgwSteps(c, spacing, PastBlocksMin, PastBlocksMax, n - (n \div 2), half)
             ELSE half

\* the locals when the loop has ended: it ends within Len(c) + 1 evaluations
KgwAfter(c, spacing, PastBlocksMin, PastBlocksMax) ==
    KgwSteps(c, spacing, PastBlocksMin, PastBlocksMax, Len(c) + 1,
             [running |-> TRUE, reading |-> 1, iter |-> 1, mass |-> 0,
              average |-> Arith256(0), actual |-> 0, target |-> 0])

KgwResult(c, spacing, PastBlocksMin, PastBlocksMax, p) ==
    IF Bootstrap(c, PastBlocksMin)
    THEN GetCompact(UintToArith256(p.powLimit))
    ELSE LET end == KgwAfter(c, spacing, PastBlocksMin, PastBlocksMax)
         IN  GetCompact(ClampToPowLimit(
                 ScaledTarget(end.average, end.actual, end.target), p))

DispatcherCalled == fn = "GetNextWorkRequired" /\ chain[1].nHeight # 160

\* C11: for a tip whose height is not 160, GetNextWorkRequired passes the
\* spacing 79, the minimum window 144 and the maximum window 4032 to
\* KimotoGravityWell and returns what KimotoGravityWell returns for them; a
\* tip below height 144 yields the compact encoding of powLimit without a
\* walk, and a tip of height 144..159 is retargeted from at least 144
\* sampled blocks.
C11_DispatcherDelegates ==
    DispatcherCalled =>
        /\ args.spacing = 79
        /\ args.PastBlocksMin = 144
        /\ args.PastBlocksMax = 4032
        /\ chain[1].nHeight < 144 =>
              /\ pc = "done"
              /\ samples = << >>
              /\ result = GetCompact(UintToArith256(params.powLimit))
        /\ chain[1].nHeight >= 144 => pc # "idle" /\ BlockReading # NullIndex
        /\ pc = "done" =>
              /\ result = KgwResult(chain, 79, 144, 4032, params)
              /\ chain[1].nHeight >= 144 =>
                    /\ Len(samples) >= 144
                    /\ result = GetCompact(ClampToPowLimit(
                           ScaledTarget(samples[Len(samples)].average,
                                        samples[Len(samples)].actual,
                                        samples[Len(samples)].target), params))

\* a tip of height 159 on a fast chain was retargeted below its own target
\* after the early exit at the 144th sample
C11_Witness ==
    /\ DispatcherCalled
    /\ pc = "done"
    /\ chain[1].nHeight = 159
    /\ stop = "deviation"
    /\ Len(samples) = 144
    /\ Gt(SetCompact(chain[1].nBits), SetCompact(result))

====
